---------------------------- MODULE Spec2Model ----------------------------
(***************************************************************************)
(* State-machine model of flutter_runner::VulkanSurface                    *)
(* (shell/platform/fuchsia/flutter/vulkan_surface.cc).                     *)
(*                                                                         *)
(* One surface object, the scenic::Session it talks to, the Vulkan driver  *)
(* and the async dispatcher.  Every method of the class is a pure operator *)
(* over a "world" record                                                   *)
(*     [this, session, ran, vk]                                            *)
(* (the members of the object, the calls the session received, the         *)
(* completion callbacks that ran, the driver's semaphore bookkeeping), and *)
(* every entry point (constructor, public method, wait handler,            *)
(* destructor) is one action that applies the operator.  Outcomes of calls *)
(* into the kernel, the driver and sysmem are inputs of the actions.       *)
(***************************************************************************)
EXTENDS Integers, Sequences, FiniteSets, TLC

VARIABLES
    life,       \* "unborn" | "alive" | "destroyed" | "aborted"
    this,       \* the members of the VulkanSurface object
    session,    \* calls received by the scenic::Session, in order
    ran,        \* ids of the completion callbacks invoked, in order
    vk,         \* driver bookkeeping: semaphores created and still live
    owed,       \* release fences the compositor holds and has not signalled
    h           \* history: constructor arguments and per-cycle counters

vars == <<life, this, session, ran, vk, owed, h>>

----------------------------------------------------------------------------
(* Bounds of the model.                                                    *)

\* width, in bits, of the memoryTypeBits masks explored
TypeBitsWidth == 2
\* largest width or height of a requested size
MaxDim == 3
\* largest buffer id handed to the constructor
MaxBufferId == 1
\* largest resource id the session hands out
MaxResourceId == 1
\* AdvanceAndGetAge is not called once age_ has reached this value
MaxAge == 3
\* number of SignalWritesFinished calls explored
MaxSignals == 2
\* number of FlushSessionAcquireAndReleaseEvents calls explored
MaxFlushes == 2
\* number of Reset executions explored (the constructor's included)
MaxResets == 3

----------------------------------------------------------------------------
(* Values.                                                                 *)

\* length of size_history_ (declared in vulkan_surface.h)
kSizeHistorySize == 3

\* SkISize::Make(w, h)
Make(w, hgt) == <<w, hgt>>

\* SkISize::MakeEmpty()
MakeEmpty == Make(0, 0)

\* SkISize::isEmpty(): fWidth <= 0 || fHeight <= 0
isEmpty(size) == size[1] <= 0 \/ size[2] <= 0

\* a null sk_sp<SkSurface>; a non-null one is the <<width, height>> it reports
NullSurface == <<>>

\* nullptr / VK_NULL_HANDLE / an empty std::function / resource id 0
Null == 0

\* the sizes requested: empty by width, non-empty, empty by height
Sizes == {Make(w, MaxDim - w) : w \in 0 .. MaxDim}

RECURSIVE Pow2(_)
Pow2(n) == IF n = 0 THEN 1 ELSE 2 * Pow2(n - 1)

TypeBits == 0 .. (Pow2(TypeBitsWidth) - 1)

\* a & b on unsigned integers
RECURSIVE BitAnd(_, _)
BitAnd(a, b) ==
    IF a = 0 \/ b = 0 THEN 0
    ELSE (IF a % 2 = 1 /\ b % 2 = 1 THEN 1 ELSE 0) + 2 * BitAnd(a \div 2, b \div 2)

\* __builtin_ctz(bits) for bits # 0: index of the lowest set bit
RECURSIVE Ctz(_)
Ctz(bits) == IF bits % 2 = 1 THEN 0 ELSE 1 + Ctz(bits \div 2)

\* whether bit i of mask is set
BitSet(mask, i) == (mask \div Pow2(i)) % 2 = 1

----------------------------------------------------------------------------
(* The object before its constructor body runs.                            *)

\* the member initialisers of the class; size_history_ has none
NewSurface(junk) ==
    [ valid_ |-> FALSE,
      image_id_ |-> Null,
      buffer_id_ |-> Null,
      sk_surface_ |-> NullSurface,
      collection_ |-> FALSE,
      vk_image |-> FALSE,
      vk_memory_ |-> [allocated |-> FALSE, memoryTypeIndex |-> -1, bound |-> FALSE],
      acquire_event_ |-> [handle |-> FALSE, signaled |-> FALSE],
      release_event_ |-> [handle |-> FALSE, signaled |-> FALSE],
      acquire_semaphore_ |-> Null,
      command_buffer_fence_ |-> FALSE,
      command_buffer_ |-> FALSE,
      wait_ |-> [object |-> FALSE, pending |-> FALSE],
      size_history_ |-> [i \in 0 .. (kSizeHistorySize - 1) |-> junk],
      size_history_index_ |-> 0,
      age_ |-> 0,
      pending_on_writes_committed_ |-> Null ]

\* one call received by the session
Call(cmd, id, size, buf) == [cmd |-> cmd, id |-> id, size |-> size, buf |-> buf]

World(t, s, r, v) == [this |-> t, session |-> s, ran |-> r, vk |-> v]

----------------------------------------------------------------------------
(* Queries.                                                                *)

IsValid(t) == t.valid_

GetSize(t) ==
    IF ~t.valid_ THEN Make(0, 0)
    ELSE Make(t.sk_surface_[1], t.sk_surface_[2])

GetSkiaSurface(t) == IF t.valid_ THEN t.sk_surface_ ELSE NullSurface

GetImageId(t) == t.image_id_

----------------------------------------------------------------------------
(* Fences.                                                                 *)

\* SemaphoreFromEvent: env.sem says whether the duplicate, the semaphore
\* creation and the import all succeed.  A new semaphore gets the next
\* handle of the driver; a failure returns the null handle.
SemaphoreFromEvent(w, event, semOk) ==
    IF ~event.handle \/ ~semOk
    THEN [world |-> w, semaphore |-> Null]
    ELSE [world |-> [w EXCEPT !.vk = [next |-> @.next + 1,
                                      live |-> @.live \cup {@.next}]],
          semaphore |-> w.vk.next]

\* VulkanHandle::Reset() / move assignment over acquire_semaphore_: the
\* semaphore held, if any, is destroyed
DropSemaphore(w) ==
    [w EXCEPT !.vk.live = @ \ {w.this.acquire_semaphore_},
              !.this.acquire_semaphore_ = Null]

\* env = [acquire, sem, release, fence]: outcome of each creation
CreateFences(w, env) ==
    IF ~env.acquire THEN [ok |-> FALSE, world |-> w]
    ELSE
      LET w1 == [w EXCEPT !.this.acquire_event_ = [handle |-> TRUE, signaled |-> FALSE]]
          sfe == SemaphoreFromEvent(DropSemaphore(w1), w1.this.acquire_event_, env.sem)
          w2 == [sfe.world EXCEPT !.this.acquire_semaphore_ = sfe.semaphore]
      IN IF sfe.semaphore = Null THEN [ok |-> FALSE, world |-> w2]
         ELSE IF ~env.release THEN [ok |-> FALSE, world |-> w2]
         ELSE [ok |-> TRUE,
               world |-> [w2 EXCEPT
                   !.this.release_event_ = [handle |-> TRUE, signaled |-> FALSE],
                   !.this.command_buffer_fence_ = env.fence]]

----------------------------------------------------------------------------
(* Allocation of the shared image.                                         *)

\* the calls of the setup that can fail and are checked, in program order;
\* in.fail names the first one that fails ("none": all succeed)
SetupSteps ==
    << "AllocateSharedCollection", "Duplicate", "Sync",
       "CreateBufferCollection", "SetBufferCollectionConstraints", "CreateImage",
       "GetBufferCollectionProperties", "AllocateMemory", "BindImageMemory",
       "NullContext", "MakeFromBackendRenderTarget",
       "CreateAcquireEvent", "SemaphoreFromEvent", "CreateReleaseEvent" >>

FailPoints == {SetupSteps[i] : i \in 1 .. Len(SetupSteps)} \cup {"none"}

\* CreateVulkanImage: constraints are set on the collection, then the image
\* is created and its memory requirements are read
CreateVulkanImage(w, in) ==
    IF in.fail = "SetBufferCollectionConstraints" THEN [ok |-> FALSE, world |-> w]
    ELSE IF in.fail = "CreateImage" THEN [ok |-> FALSE, world |-> w]
    ELSE [ok |-> TRUE, world |-> [w EXCEPT !.this.vk_image = TRUE]]

\* SetupSkiaSurface with the render target made height by width
SetupSkiaSurfaceTransposed(w, in) ==
    IF in.fail = "NullContext" THEN [ok |-> FALSE, world |-> w]
    ELSE IF in.fail = "MakeFromBackendRenderTarget" THEN [ok |-> FALSE, world |-> w]
    ELSE [ok |-> TRUE,
          world |-> [w EXCEPT !.this.sk_surface_ = Make(in.size[2], in.size[1])]]

\* SetupSkiaSurface: the surface made from the render target reports the
\* width and height of that target
SetupSkiaSurface(w, in) ==
    IF in.fail = "NullContext" THEN [ok |-> FALSE, world |-> w]
    ELSE IF in.fail = "MakeFromBackendRenderTarget" THEN [ok |-> FALSE, world |-> w]
    ELSE [ok |-> TRUE,
          world |-> [w EXCEPT !.this.sk_surface_ = Make(in.size[1], in.size[2])]]

\* the memory type index handed to vkAllocateMemory; with bits = 0 the
\* debug build stops at FML_DCHECK(bits != 0) and the release build
\* evaluates __builtin_ctz(0), whose result is undefined (in.ub)
MemoryTypeIndex(bits, in) == IF bits # 0 THEN Ctz(bits) ELSE in.ub

AllocateDeviceMemory(w, in, debug) ==
    LET failed(x) == [ok |-> FALSE, aborted |-> FALSE, world |-> x] IN
    IF isEmpty(in.size) THEN failed(w)
    ELSE IF in.fail = "AllocateSharedCollection" THEN failed(w)
    ELSE IF in.fail = "Duplicate" THEN failed(w)
    ELSE IF in.fail = "Sync" THEN failed(w)
    ELSE
      LET w1 == [w EXCEPT
                   !.session = Append(@, Call("RegisterBufferCollection", in.buffer_id,
                                              MakeEmpty, in.buffer_id)),
                   !.this.buffer_id_ = in.buffer_id]
      IN
      IF in.fail = "CreateBufferCollection" THEN failed(w1)
      ELSE
        LET w2 == [w1 EXCEPT !.this.collection_ = TRUE]
            img == CreateVulkanImage(w2, in)
        IN
        IF ~img.ok THEN failed(w2)
        ELSE IF in.fail = "GetBufferCollectionProperties" THEN failed(img.world)
        ELSE
          LET bits == BitAnd(in.imageTypeBits, in.collectionTypeBits) IN
          IF debug /\ bits = 0
          THEN [ok |-> FALSE, aborted |-> TRUE, world |-> img.world]
          ELSE IF in.fail = "AllocateMemory" THEN failed(img.world)
          ELSE
            LET w3 == [img.world EXCEPT !.this.vk_memory_ =
                         [allocated |-> TRUE,
                          memoryTypeIndex |-> MemoryTypeIndex(bits, in),
                          bound |-> FALSE]]
            IN
            IF in.fail = "BindImageMemory" THEN failed(w3)
            ELSE
              LET sk == SetupSkiaSurface([w3 EXCEPT !.this.vk_memory_.bound = TRUE], in)
              IN [ok |-> sk.ok, aborted |-> FALSE, world |-> sk.world]

\* PushSessionImageSetupOps: rid is the id AllocResourceId hands out
PushSessionImageSetupOps(w, rid) ==
    LET w1 == IF w.this.image_id_ = 0
              THEN [w EXCEPT !.this.image_id_ = rid,
                             !.session = Append(@, Call("AllocResourceId", rid,
                                                        MakeEmpty, 0))]
              ELSE w
    IN [w1 EXCEPT !.session =
          Append(@, Call("CreateImage2", w1.this.image_id_,
                         Make(w1.this.sk_surface_[1], w1.this.sk_surface_[2]),
                         w1.this.buffer_id_))]

----------------------------------------------------------------------------
(* The methods of the surface.                                             *)

\* zx::event::signal(ZX_EVENT_SIGNALED, 0): clears the signal; fails on an
\* invalid handle or when the kernel refuses (ok = FALSE)
ClearSignal(event, ok) ==
    IF event.handle /\ ok THEN [event EXCEPT !.signaled = FALSE] ELSE event

\* async::WaitMethod::Begin: arms the wait on its object; an armed wait stays
\* armed (ZX_ERR_ALREADY_EXISTS), a failed Begin arms nothing
Begin(wait, ok) ==
    IF wait.pending THEN wait
    ELSE IF wait.object /\ ok THEN [wait EXCEPT !.pending = TRUE]
    ELSE wait

\* Reset that invokes the pending callback without emptying the slot
ResetKeepsCallback(w, env) ==
    LET acquireOk == w.this.acquire_event_.handle /\ env.signal # "acquire"
        releaseOk == w.this.release_event_.handle /\ env.signal # "release"
        w1 == [w EXCEPT
                 !.this.acquire_event_ = ClearSignal(@, acquireOk),
                 !.this.release_event_ = IF acquireOk THEN ClearSignal(@, releaseOk) ELSE @,
                 !.this.valid_ = IF ~acquireOk \/ ~releaseOk THEN FALSE ELSE @]
        w2 == [w1 EXCEPT !.this.command_buffer_ = FALSE]
        sfe == SemaphoreFromEvent(DropSemaphore(w2), w2.this.acquire_event_, env.sem)
        w3 == [sfe.world EXCEPT !.this.acquire_semaphore_ = sfe.semaphore]
        w4 == [w3 EXCEPT !.this.wait_ = Begin(@, env.begin)]
        callback == w4.this.pending_on_writes_committed_
    IN IF callback # Null THEN [w4 EXCEPT !.ran = Append(@, callback)] ELSE w4

\* Reset that leaves an outstanding command buffer in place
ResetKeepsCommandBuffer(w, env) ==
    LET acquireOk == w.this.acquire_event_.handle /\ env.signal # "acquire"
        releaseOk == w.this.release_event_.handle /\ env.signal # "release"
        w1 == [w EXCEPT
                 !.this.acquire_event_ = ClearSignal(@, acquireOk),
                 !.this.release_event_ = IF acquireOk THEN ClearSignal(@, releaseOk) ELSE @,
                 !.this.valid_ = IF ~acquireOk \/ ~releaseOk THEN FALSE ELSE @]
        sfe == SemaphoreFromEvent(DropSemaphore(w1), w1.this.acquire_event_, env.sem)
        w3 == [sfe.world EXCEPT !.this.acquire_semaphore_ = sfe.semaphore]
        w4 == [w3 EXCEPT !.this.wait_ = Begin(@, env.begin)]
        callback == w4.this.pending_on_writes_committed_
        w5 == [w4 EXCEPT !.this.pending_on_writes_committed_ = Null]
    IN IF callback # Null THEN [w5 EXCEPT !.ran = Append(@, callback)] ELSE w5

\* Reset.  env = [signal, sem, begin]: signal is "ok", or the event
\* ("acquire" / "release") whose re-arming fails; sem and begin are the
\* outcomes of SemaphoreFromEvent and wait_.Begin
Reset(w, env) ==
    LET acquireOk == w.this.acquire_event_.handle /\ env.signal # "acquire"
        \* || : the release event is touched only if the acquire event was re-armed
        releaseOk == w.this.release_event_.handle /\ env.signal # "release"
        w1 == [w EXCEPT
                 !.this.acquire_event_ = ClearSignal(@, acquireOk),
                 !.this.release_event_ = IF acquireOk THEN ClearSignal(@, releaseOk) ELSE @,
                 !.this.valid_ = IF ~acquireOk \/ ~releaseOk THEN FALSE ELSE @]
        \* WaitForFences if a command buffer is outstanding, then ResetFences
        w2 == [w1 EXCEPT !.this.command_buffer_ = FALSE]
        sfe == SemaphoreFromEvent(DropSemaphore(w2), w2.this.acquire_event_, env.sem)
        w3 == [sfe.world EXCEPT !.this.acquire_semaphore_ = sfe.semaphore]
        w4 == [w3 EXCEPT !.this.wait_ = Begin(@, env.begin)]
        callback == w4.this.pending_on_writes_committed_
        w5 == [w4 EXCEPT !.this.pending_on_writes_committed_ = Null]
    IN IF callback # Null THEN [w5 EXCEPT !.ran = Append(@, callback)] ELSE w5

\* the constructor body.  in: the arguments and the outcomes of the setup
\* calls; env: the outcomes inside the Reset it ends with
VulkanSurface(w, in, env, debug) ==
    LET adm == AllocateDeviceMemory(w, in, debug) IN
    IF adm.aborted THEN [aborted |-> TRUE, world |-> adm.world]
    ELSE IF ~adm.ok THEN [aborted |-> FALSE, world |-> adm.world]
    ELSE
      LET cf == CreateFences(adm.world,
                             [acquire |-> in.fail # "CreateAcquireEvent",
                              sem |-> in.fail # "SemaphoreFromEvent",
                              release |-> in.fail # "CreateReleaseEvent",
                              fence |-> in.fence])
      IN
      IF ~cf.ok THEN [aborted |-> FALSE, world |-> cf.world]
      ELSE
        LET w1 == PushSessionImageSetupOps(cf.world, in.rid)
            w2 == [w1 EXCEPT
                     !.this.size_history_ =
                         [i \in 0 .. (kSizeHistorySize - 1) |-> MakeEmpty],
                     !.this.wait_.object = TRUE]
            w3 == Reset(w2, env)
        IN [aborted |-> FALSE, world |-> [w3 EXCEPT !.this.valid_ = TRUE]]

\* the object after the destructors of its members ran: its storage is gone
\* (the members read as in a new object).  What the dispatcher and the kernel
\* hold outlives it: the registration of the wait, unless it was cancelled,
\* and the signal of the release event, which the compositor holds too
Destroyed(t) ==
    [NewSurface(MakeEmpty) EXCEPT
       !.wait_ = t.wait_,
       !.release_event_ = [handle |-> FALSE, signaled |-> t.release_event_.signaled]]

\* the destructor without wait_.Cancel() and wait_.set_object()
DestructorKeepsWait(w) ==
    LET w1 == IF w.this.image_id_ # 0
              THEN [w EXCEPT !.session =
                      Append(@, Call("ReleaseResource", w.this.image_id_, MakeEmpty, 0))]
              ELSE w
        w2 == IF w1.this.buffer_id_ # 0
              THEN [w1 EXCEPT !.session =
                      Append(@, Call("DeregisterBufferCollection", w1.this.buffer_id_,
                                     MakeEmpty, w1.this.buffer_id_))]
              ELSE w1
    IN [DropSemaphore(w2) EXCEPT !.this = Destroyed(w2.this)]

\* the destructor without the test of image_id_
DestructorUnguarded(w) ==
    LET w1 == [w EXCEPT !.session =
                 Append(@, Call("ReleaseResource", w.this.image_id_, MakeEmpty, 0))]
        w2 == IF w1.this.buffer_id_ # 0
              THEN [w1 EXCEPT !.session =
                      Append(@, Call("DeregisterBufferCollection", w1.this.buffer_id_,
                                     MakeEmpty, w1.this.buffer_id_))]
              ELSE w1
        w3 == [w2 EXCEPT !.this.wait_ = [object |-> FALSE, pending |-> FALSE]]
    IN [DropSemaphore(w3) EXCEPT !.this = Destroyed(w3.this)]

\* the destructor body, then the destructors of the members
Destructor(w) ==
    LET w1 == IF w.this.image_id_ # 0
              THEN [w EXCEPT !.session =
                      Append(@, Call("ReleaseResource", w.this.image_id_, MakeEmpty, 0))]
              ELSE w
        w2 == IF w1.this.buffer_id_ # 0
              THEN [w1 EXCEPT !.session =
                      Append(@, Call("DeregisterBufferCollection", w1.this.buffer_id_,
                                     MakeEmpty, w1.this.buffer_id_))]
              ELSE w1
        \* wait_.Cancel(); wait_.set_object(ZX_HANDLE_INVALID)
        w3 == [w2 EXCEPT !.this.wait_ = [object |-> FALSE, pending |-> FALSE]]
    IN [DropSemaphore(w3) EXCEPT !.this = Destroyed(w3.this)]

\* AdvanceAndGetAge returning the age before the increment (return age_++)
AdvanceAndGetAgeStale(w) ==
    LET t == w.this
        t1 == [t EXCEPT !.size_history_[t.size_history_index_] = GetSize(t)]
        t2 == [t1 EXCEPT !.size_history_index_ = (@ + 1) % kSizeHistorySize]
        t3 == [t2 EXCEPT !.age_ = @ + 1]
    IN [world |-> [w EXCEPT !.this = t3], result |-> t.age_]

\* AdvanceAndGetAge advancing the index before it records the size
AdvanceAndGetAgeIndexFirst(w) ==
    LET t == w.this
        t1 == [t EXCEPT !.size_history_index_ = (@ + 1) % kSizeHistorySize]
        t2 == [t1 EXCEPT !.size_history_[t1.size_history_index_] = GetSize(t)]
        t3 == [t2 EXCEPT !.age_ = @ + 1]
    IN [world |-> [w EXCEPT !.this = t3], result |-> t3.age_]

AdvanceAndGetAge(w) ==
    LET t == w.this
        t1 == [t EXCEPT !.size_history_[t.size_history_index_] = GetSize(t)]
        t2 == [t1 EXCEPT !.size_history_index_ = (@ + 1) % kSizeHistorySize]
        t3 == [t2 EXCEPT !.age_ = @ + 1]
    IN [world |-> [w EXCEPT !.this = t3], result |-> t3.age_]

\* the flush enqueueing the acquire fence before the release event is duplicated
FlushAcquireFirst(w, dup) ==
    IF ~(w.this.acquire_event_.handle /\ dup # "acquire")
    THEN [world |-> w, result |-> FALSE]
    ELSE
      LET w1 == [w EXCEPT !.session = Append(@, Call("AcquireFence", 0, MakeEmpty, 0))] IN
      IF ~(w.this.release_event_.handle /\ dup # "release")
      THEN [world |-> w1, result |-> FALSE]
      ELSE [world |-> [w1 EXCEPT
                         !.session = Append(@, Call("ReleaseFence", 0, MakeEmpty, 0)),
                         !.this.age_ = 0],
            result |-> TRUE]

\* dup is "ok", or the event ("acquire" / "release") whose duplication
\* fails; an invalid handle cannot be duplicated
FlushSessionAcquireAndReleaseEvents(w, dup) ==
    IF ~(w.this.acquire_event_.handle /\ dup # "acquire")
       \/ ~(w.this.release_event_.handle /\ dup # "release")
    THEN [world |-> w, result |-> FALSE]
    ELSE [world |-> [w EXCEPT
                       !.session = Append(Append(@, Call("AcquireFence", 0, MakeEmpty, 0)),
                                          Call("ReleaseFence", 0, MakeEmpty, 0)),
                       !.this.age_ = 0],
          result |-> TRUE]

\* SignalWritesFinished going on to store the callback it has just invoked
\* on an invalid surface (no return after the invocation)
SignalWritesFinishedFallsThrough(w, cb) ==
    LET w1 == IF ~w.this.valid_ THEN [w EXCEPT !.ran = Append(@, cb)] ELSE w IN
    IF w1.this.pending_on_writes_committed_ # Null
    THEN [aborted |-> TRUE, world |-> w1]
    ELSE [aborted |-> FALSE,
          world |-> [w1 EXCEPT !.this.pending_on_writes_committed_ = cb]]

\* SignalWritesFinished without the dart_utils::Check
SignalWritesFinishedUnchecked(w, cb) ==
    IF ~w.this.valid_
    THEN [aborted |-> FALSE, world |-> [w EXCEPT !.ran = Append(@, cb)]]
    ELSE [aborted |-> FALSE,
          world |-> [w EXCEPT !.this.pending_on_writes_committed_ = cb]]

\* cb is the (non-empty) callback passed in.  dart_utils::Check ends the
\* process when its condition is false.
SignalWritesFinished(w, cb) ==
    IF ~w.this.valid_
    THEN [aborted |-> FALSE, world |-> [w EXCEPT !.ran = Append(@, cb)]]
    ELSE IF w.this.pending_on_writes_committed_ # Null
    THEN [aborted |-> TRUE, world |-> w]
    ELSE [aborted |-> FALSE,
          world |-> [w EXCEPT !.this.pending_on_writes_committed_ = cb]]

OnHandleReady(w, status, env) ==
    IF status # "ZX_OK" THEN w ELSE Reset(w, env)

----------------------------------------------------------------------------
(* Reset, statement by statement.  A trace is the sequence of the          *)
(* statements a call executes, each with the world it leaves; the first    *)
(* entry is the call itself with the world it is entered in.               *)

Step(name, w) == [step |-> name, world |-> w, aborted |-> FALSE]

Last(tr) == tr[Len(tr)]

\* what an invoked completion callback does: it returns, it calls
\* SignalWritesFinished on the same surface, or it deletes the surface
Behaviours == {"return", "SignalWritesFinished", "delete"}

\* the callback a callback registers when it calls SignalWritesFinished; the
\* callbacks registered this way return when they are invoked
Child(cb) == -cb

\* callback(): cb runs in world w
Invoke(w, cb, does) ==
    LET w1 == [w EXCEPT !.ran = Append(@, cb)] IN
    IF does = "SignalWritesFinished" /\ cb > 0 THEN SignalWritesFinished(w1, Child(cb))
    ELSE IF does = "delete" /\ cb > 0 THEN [aborted |-> FALSE, world |-> Destructor(w1)]
    ELSE [aborted |-> FALSE, world |-> w1]

\* lines 427-432: || stops at the first failure
EventSteps(w, env) ==
    LET acquireOk == w.this.acquire_event_.handle /\ env.signal # "acquire"
        releaseOk == w.this.release_event_.handle /\ env.signal # "release"
        w1 == [w EXCEPT !.this.acquire_event_ = ClearSignal(@, acquireOk)]
        w2 == [w1 EXCEPT !.this.release_event_ = ClearSignal(@, releaseOk)]
        w3 == IF acquireOk THEN w2 ELSE w1
    IN << Step("acquire_event_.signal", w1) >>
       \o (IF acquireOk THEN << Step("release_event_.signal", w2) >> ELSE << >>)
       \o (IF ~acquireOk \/ ~releaseOk
           THEN << Step("valid_ = false", [w3 EXCEPT !.this.valid_ = FALSE]) >>
           ELSE << >>)

\* the fence reset before the wait for the fence
FenceStepsResetFirst(w) ==
    LET w1 == [w EXCEPT !.this.command_buffer_ = FALSE] IN
    << Step("ResetFences", w) >>
    \o (IF w.this.command_buffer_
        THEN << Step("WaitForFences", w), Step("command_buffer_.reset", w1) >>
        ELSE << >>)

\* lines 434-443
FenceSteps(w) ==
    LET w1 == [w EXCEPT !.this.command_buffer_ = FALSE] IN
    (IF w.this.command_buffer_
     THEN << Step("WaitForFences", w), Step("command_buffer_.reset", w1) >>
     ELSE << >>)
    \o << Step("ResetFences", w1) >>

\* lines 445-451
SemaphoreSteps(w, env) ==
    LET w1 == DropSemaphore(w)
        sfe == SemaphoreFromEvent(w1, w1.this.acquire_event_, env.sem)
        w2 == [sfe.world EXCEPT !.this.acquire_semaphore_ = sfe.semaphore]
    IN << Step("acquire_semaphore_.Reset", w1), Step("SemaphoreFromEvent", w2) >>

\* line 453
WaitSteps(w, env) ==
    << Step("wait_.Begin", [w EXCEPT !.this.wait_ = Begin(@, env.begin)]) >>

\* the callback invoked while it is still in the slot, the slot emptied after
CallbackStepsInvokeFirst(w, does) ==
    LET callback == w.this.pending_on_writes_committed_
        r == Invoke(w, callback, does)
        w1 == [r.world EXCEPT !.this.pending_on_writes_committed_ = Null]
    IN (IF callback # Null
        THEN << [step |-> "callback", world |-> r.world, aborted |-> r.aborted] >>
        ELSE << >>)
       \o << [step |-> "pending_on_writes_committed_ = nullptr", world |-> w1,
              aborted |-> r.aborted] >>

\* lines 455-460
CallbackSteps(w, does) ==
    LET callback == w.this.pending_on_writes_committed_
        w1 == [w EXCEPT !.this.pending_on_writes_committed_ = Null]
        r == Invoke(w1, callback, does)
    IN << Step("pending_on_writes_committed_ = nullptr", w1) >>
       \o (IF callback # Null
           THEN << [step |-> "callback", world |-> r.world, aborted |-> r.aborted] >>
           ELSE << >>)

\* Reset invoking the callback before it re-arms the wait
ResetTraceCallbackFirst(w, env, does) ==
    LET t0 == << Step("Reset", w) >>
        t1 == t0 \o EventSteps(Last(t0).world, env)
        t2 == t1 \o FenceSteps(Last(t1).world)
        t3 == t2 \o SemaphoreSteps(Last(t2).world, env)
        t4 == t3 \o CallbackSteps(Last(t3).world, does)
    IN t4 \o WaitSteps(Last(t4).world, env)

ResetTrace(w, env, does) ==
    LET t0 == << Step("Reset", w) >>
        t1 == t0 \o EventSteps(Last(t0).world, env)
        t2 == t1 \o FenceSteps(Last(t1).world)
        t3 == t2 \o SemaphoreSteps(Last(t2).world, env)
        t4 == t3 \o WaitSteps(Last(t3).world, env)
    IN t4 \o CallbackSteps(Last(t4).world, does)

\* the handler, with a callback that may act on the surface
OnHandleReadyTrace(w, status, env, does) ==
    IF status # "ZX_OK" THEN << Step("return", w) >> ELSE ResetTrace(w, env, does)

----------------------------------------------------------------------------
(* Inputs of the actions.                                                  *)

StepNo(step) == CHOOSE i \in 1 .. Len(SetupSteps) : SetupSteps[i] = step

\* the setup got as far as intersecting the memory type bits
ReachesBits(size, fail) ==
    ~isEmpty(size) /\ (fail = "none" \/ StepNo(fail) >= StepNo("AllocateMemory"))

\* the first failing setup call, among those the run can reach
FailChoices(size, bits, debug) ==
    IF isEmpty(size) THEN {"none"}
    ELSE IF debug /\ bits = 0
    THEN {f \in FailPoints : f = "none" \/ StepNo(f) < StepNo("AllocateMemory")}
    ELSE FailPoints

\* the last kSizeHistorySize elements of a sequence
Recent(seq) ==
    IF Len(seq) <= kSizeHistorySize THEN seq
    ELSE SubSeq(seq, Len(seq) - kSizeHistorySize + 1, Len(seq))

SignalOutcomes == {"ok", "acquire", "release"}

ResetEnvs == [signal : SignalOutcomes, sem : BOOLEAN, begin : BOOLEAN]

QuietEnv == [signal |-> "ok", sem |-> TRUE, begin |-> TRUE]

world == World(this, session, ran, vk)

\* the values left in uninitialised SkISize storage that are explored
Garbage == {MakeEmpty, Make(MaxDim, MaxDim)}

\* number of calls cmd the session received
Count(cmd) == Cardinality({i \in 1 .. Len(session) : session[i].cmd = cmd})

----------------------------------------------------------------------------
(* The state machine.                                                      *)

Init ==
    /\ life = "unborn"
    /\ this \in {NewSurface(junk) : junk \in Garbage}
    /\ session = << >>
    /\ ran = << >>
    /\ vk = [next |-> 1, live |-> {}]
    /\ owed = 0
    /\ h = [size |-> MakeEmpty, buffer_id |-> 0, fail |-> "none", fence |-> TRUE,
            bits |-> -1, swf |-> 0, calls |-> 0, resets |-> 0, signals |-> 0,
            sizes |-> << >>]

Install(w) ==
    /\ this' = w.this
    /\ session' = w.session
    /\ ran' = w.ran
    /\ vk' = w.vk

\* new VulkanSurface(vulkan_provider, sysmem_allocator, context, session, size,
\* buffer_id), in a build with (debug) or without FML_DCHECK
ConstructWith(masks) ==
    /\ life = "unborn"
    /\ \E debug \in BOOLEAN, size \in Sizes, buffer_id \in 0 .. MaxBufferId,
          imageTypeBits \in masks, collectionTypeBits \in masks :
       LET bits == BitAnd(imageTypeBits, collectionTypeBits) IN
       \E fail \in FailChoices(size, bits, debug) :
       LET completes == ~isEmpty(size) /\ fail = "none" /\ ~(debug /\ bits = 0) IN
       \E ub \in (IF ReachesBits(size, fail) /\ bits = 0 /\ fail # "AllocateMemory"
                  THEN 0 .. TypeBitsWidth ELSE {0}),
          fence \in (IF completes THEN BOOLEAN ELSE {TRUE}),
          rid \in (IF completes THEN 1 .. MaxResourceId ELSE {1}),
          env \in (IF completes THEN ResetEnvs ELSE {QuietEnv}) :
       LET in == [size |-> size, buffer_id |-> buffer_id, fail |-> fail,
                  imageTypeBits |-> imageTypeBits,
                  collectionTypeBits |-> collectionTypeBits,
                  ub |-> ub, fence |-> fence, rid |-> rid]
           r == VulkanSurface(world, in, env, debug)
       IN /\ Install(r.world)
          /\ life' = IF r.aborted THEN "aborted" ELSE "alive"
          /\ h' = [h EXCEPT
                     !.size = size, !.buffer_id = buffer_id, !.fail = fail,
                     !.fence = fence,
                     !.bits = IF ReachesBits(size, fail) THEN bits ELSE -1,
                     !.resets = IF completes THEN 1 ELSE 0]
    /\ UNCHANGED owed

\* construction with every pair of memory type masks
Setup == ConstructWith(TypeBits)

\* construction where driver and collection allow every memory type
Construct == ConstructWith({Pow2(TypeBitsWidth) - 1})

\* delete surface
Destroy ==
    /\ life = "alive"
    /\ Install(Destructor(world))
    /\ life' = "destroyed"
    /\ UNCHANGED <<owed, h>>

CallAdvanceAndGetAge ==
    /\ life = "alive"
    /\ this.age_ < MaxAge
    /\ Install(AdvanceAndGetAge(world).world)
    /\ h' = [h EXCEPT !.calls = @ + 1,
                      !.sizes = Recent(Append(@, GetSize(this)))]
    /\ UNCHANGED <<life, owed>>

CallFlushSessionAcquireAndReleaseEvents ==
    /\ life = "alive"
    /\ Count("ReleaseFence") < MaxFlushes
    /\ \E dup \in SignalOutcomes :
       LET r == FlushSessionAcquireAndReleaseEvents(world, dup)
           done == this.acquire_event_.handle /\ this.release_event_.handle /\ dup = "ok"
       IN /\ Install(r.world)
          /\ owed' = IF done THEN owed + 1 ELSE owed
          /\ h' = [h EXCEPT !.calls = IF done THEN 0 ELSE @]
    /\ UNCHANGED life

\* the callback of the n-th call is callback n
CallSignalWritesFinished ==
    /\ life = "alive"
    /\ h.signals < MaxSignals
    /\ LET r == SignalWritesFinished(world, h.signals + 1) IN
       /\ Install(r.world)
       /\ life' = IF r.aborted THEN "aborted" ELSE life
    /\ h' = [h EXCEPT !.signals = @ + 1, !.swf = @ + 1]
    /\ UNCHANGED owed

\* the dispatcher delivers the armed wait: with ZX_OK once the release event
\* is signalled, with ZX_ERR_CANCELED when the dispatcher shuts down.  It
\* knows the wait, not the surface: a wait left armed is delivered even
\* when the surface is gone
DispatchWith(statuses) ==
    /\ life \in {"alive", "destroyed"}
    /\ this.wait_.pending
    /\ h.resets < MaxResets
    /\ \E status \in statuses :
       \E env \in (IF status = "ZX_OK" THEN ResetEnvs ELSE {QuietEnv}) :
          /\ status = "ZX_OK" => this.release_event_.signaled
          /\ Install(OnHandleReady([world EXCEPT !.this.wait_.pending = FALSE],
                                   status, env))
          /\ h' = IF status = "ZX_OK"
                  THEN [h EXCEPT !.resets = @ + 1, !.swf = 0]
                  ELSE h
    /\ UNCHANGED <<life, owed>>

Dispatch == DispatchWith({"ZX_OK", "ZX_ERR_CANCELED"})

\* the dispatcher of a loop that keeps running delivers the release signal
Deliver == DispatchWith({"ZX_OK"})

\* the compositor signals the release fence of a frame it was handed, while
\* the surface lives or after it is gone
ReleaseSignaled ==
    /\ life \in {"alive", "destroyed"}
    /\ owed > 0
    /\ owed' = owed - 1
    /\ this' = [this EXCEPT !.release_event_.signaled = TRUE]
    /\ UNCHANGED <<life, session, ran, vk, h>>

\* GetCommandBuffer (vulkan_surface.h): a command buffer is created on first use
GetCommandBuffer ==
    /\ life = "alive"
    /\ this.valid_
    /\ ~this.command_buffer_
    /\ this' = [this EXCEPT !.command_buffer_ = TRUE]
    /\ UNCHANGED <<life, session, ran, vk, owed, h>>

Next ==
    \/ Construct
    \/ Destroy
    \/ CallAdvanceAndGetAge
    \/ CallFlushSessionAcquireAndReleaseEvents
    \/ CallSignalWritesFinished
    \/ Dispatch
    \/ ReleaseSignaled
    \/ GetCommandBuffer

Spec == Init /\ [][Next]_vars

\* construction under every outcome of the setup calls, and destruction
NextSetup ==
    \/ Setup
    \/ Destroy

SpecSetup == Init /\ [][NextSetup]_vars

\* the dispatcher delivers the release signal while a callback is pending
\* that acts on the surface when it is invoked
DispatchReentrant ==
    /\ life = "alive"
    /\ this.wait_.pending
    /\ this.release_event_.signaled
    /\ this.pending_on_writes_committed_ > 0
    /\ h.resets < MaxResets
    /\ \E env \in ResetEnvs, does \in Behaviours \ {"return"} :
       LET r == Last(OnHandleReadyTrace([world EXCEPT !.this.wait_.pending = FALSE],
                                        "ZX_OK", env, does))
       IN /\ Install(r.world)
          /\ life' = IF r.aborted THEN "aborted"
                     ELSE IF does = "delete" THEN "destroyed"
                     ELSE life
          /\ h' = [h EXCEPT !.resets = @ + 1,
                            !.swf = IF does = "SignalWritesFinished" THEN 1 ELSE 0]
    /\ UNCHANGED owed

\* the life of a surface whose callbacks may act on it
NextReentrant ==
    \/ Next
    \/ DispatchReentrant

SpecReentrant == Init /\ [][NextReentrant]_vars

\* the frame cycle on a loop that is never shut down
NextLive ==
    \/ Construct
    \/ Destroy
    \/ CallFlushSessionAcquireAndReleaseEvents
    \/ CallSignalWritesFinished
    \/ Deliver
    \/ ReleaseSignaled
    \/ GetCommandBuffer

\* async::Loop dispatches a wait whose trigger is signalled as long as the
\* wait stays armed: weak fairness of the delivery
SpecLive == Init /\ [][NextLive]_vars /\ WF_vars(Deliver)

----------------------------------------------------------------------------
(* Properties.                                                             *)

\* a setup call failed: the size was empty, a checked call failed, or the
\* command-buffer fence could not be created
SetupFailed == isEmpty(h.size) \/ h.fail # "none" \/ ~h.fence

\* the constructor returned before the end of its body
SetupIncomplete == isEmpty(h.size) \/ h.fail # "none"

\* the dispatcher can deliver the release signal to the armed wait
Deliverable == life = "alive" /\ this.wait_.pending /\ this.release_event_.signaled

\* the world the wait handler is entered with (a delivered wait is no longer armed)
Delivered == [world EXCEPT !.this.wait_.pending = FALSE]

\* C1: on a live surface, GetSize() is the non-empty size given to the
\* constructor while the surface is valid and 0x0 while it is invalid, after
\* any sequence of operations.
C1_GetSize ==
    life = "alive" =>
        /\ IsValid(this) => GetSize(this) = h.size /\ ~isEmpty(h.size)
        /\ ~IsValid(this) => GetSize(this) = Make(0, 0)

\* a valid surface that was advanced, signalled, flushed and reset
C1_Witness ==
    /\ life = "alive" /\ IsValid(this)
    /\ h.resets >= 2 /\ this.age_ > 0 /\ h.signals > 0
    /\ GetSize(this) = h.size

\* C2 as stated: two SignalWritesFinished calls with no Reset between them
\* end in the fatal assertion, on any surface.
C2_Original == h.swf >= 2 => life = "aborted"

\* C2 amended: on a valid surface, the second SignalWritesFinished call with
\* no Reset since the first ends the process; the callback of the first call
\* is still the pending one and the callback of the second is neither
\* stored nor run.
C2_DoubleRegistration ==
    (this.valid_ /\ h.swf >= 2) =>
        /\ life = "aborted"
        /\ this.pending_on_writes_committed_ = h.signals - 1
        /\ \A i \in 1 .. Len(ran) : ran[i] # h.signals

\* the process ended in the second call on a valid surface
C2_Witness == life = "aborted" /\ this.valid_ /\ h.swf = 2

\* C3: the age is the number of AdvanceAndGetAge calls since the last
\* successful flush (or since construction), and the next call returns that
\* number plus one; Reset, SignalWritesFinished and a failed flush leave it.
C3_Age ==
    life = "alive" =>
        /\ this.age_ = h.calls
        /\ AdvanceAndGetAge(world).result = h.calls + 1

\* three calls in a row after a successful flush and a Reset
C3_Witness ==
    /\ life = "alive" /\ this.age_ = 3
    /\ Count("ReleaseFence") >= 1 /\ h.resets >= 2

\* C4: the handler entered with ZX_OK runs Reset, which invokes the pending
\* callback once and empties the slot, or invokes nothing when the slot is
\* empty; over a whole run no callback is invoked twice, and a callback that
\* ran is no longer pending.
C4_CallbackOnce ==
    /\ Deliverable =>
         \A env \in ResetEnvs :
            LET r == OnHandleReady(Delivered, "ZX_OK", env)
                cb == this.pending_on_writes_committed_
            IN /\ r.this.pending_on_writes_committed_ = Null
               /\ r.ran = IF cb # Null THEN Append(ran, cb) ELSE ran
               /\ r.this.command_buffer_ = FALSE
    /\ \A i, j \in 1 .. Len(ran) : i # j => ran[i] # ran[j]
    /\ \A i \in 1 .. Len(ran) : ran[i] # this.pending_on_writes_committed_

\* two Resets from the handler on a valid surface, one with a callback
\* pending and one without
C4_Witness ==
    /\ life = "alive" /\ this.valid_
    /\ h.resets >= 3 /\ Len(ran) = 1
    /\ this.pending_on_writes_committed_ = Null

\* C5: from a valid surface with a callback registered, a frame flushed and
\* the release signal delivered, a Reset in which no call fails leaves the
\* surface valid with the same size, no callback pending, no command buffer,
\* the wait armed again, and the next SignalWritesFinished and flush accepted.
C5_RoundTrip ==
    (/\ Deliverable
     /\ this.valid_
     /\ this.pending_on_writes_committed_ # Null
     /\ Count("ReleaseFence") >= 1)
    => LET r == OnHandleReady(Delivered, "ZX_OK", QuietEnv) IN
        /\ IsValid(r.this) /\ GetSize(r.this) = GetSize(this)
        /\ GetSize(r.this) = h.size
        /\ r.this.pending_on_writes_committed_ = Null
        /\ ~r.this.command_buffer_
        /\ r.this.wait_.pending
        /\ ~SignalWritesFinished(r, h.signals + 1).aborted
        /\ FlushSessionAcquireAndReleaseEvents(r, "ok").result

\* a second cycle about to complete, with a command buffer outstanding
C5_Witness ==
    /\ Deliverable /\ this.valid_
    /\ this.pending_on_writes_committed_ # Null
    /\ Count("ReleaseFence") >= 2
    /\ Len(ran) >= 1 /\ h.resets >= 2
    /\ this.command_buffer_


\* C6 as stated: once any setup call has failed, the surface is invalid in
\* every later state: IsValid() is false, GetSize() is 0x0, GetSkiaSurface()
\* is null, no image resource id was allocated, no create-image command was
\* enqueued and the release wait is not armed.
C6_SetupFailureInvalid ==
    (life = "alive" /\ SetupFailed) =>
        /\ ~IsValid(this)
        /\ GetSize(this) = Make(0, 0)
        /\ GetSkiaSurface(this) = NullSurface
        /\ GetImageId(this) = 0
        /\ Count("AllocResourceId") = 0
        /\ Count("CreateImage2") = 0
        /\ ~this.wait_.pending

\* C7: after the destruction of a surface whose constructor returned early,
\* every release-resource command names an id the session allocated before,
\* and every deregistration names a buffer collection registered before.
C7_NoSpuriousRelease ==
    (life = "destroyed" /\ SetupIncomplete) =>
        /\ \A i \in 1 .. Len(session) :
              session[i].cmd = "ReleaseResource" =>
                  \E j \in 1 .. (i - 1) :
                     session[j].cmd = "AllocResourceId" /\ session[j].id = session[i].id
        /\ \A i \in 1 .. Len(session) :
              session[i].cmd = "DeregisterBufferCollection" =>
                  \E j \in 1 .. (i - 1) :
                     /\ session[j].cmd = "RegisterBufferCollection"
                     /\ session[j].id = session[i].id

\* a surface destroyed after its setup failed between the registration of
\* the collection and the allocation of the image id
C7_Witness ==
    /\ life = "destroyed" /\ h.fail = "CreateImage"
    /\ Count("RegisterBufferCollection") = 1
    /\ Count("DeregisterBufferCollection") = 1
    /\ Count("ReleaseResource") = 0

\* C8 as stated: after destruction, exactly one release-resource command was
\* enqueued if and only if an image id was allocated, and the buffer
\* collection was deregistered exactly once if and only if it was
\* registered, for every constructor outcome and every buffer_id.
C8_NoLeak ==
    life = "destroyed" =>
        /\ Count("ReleaseResource") = (IF Count("AllocResourceId") > 0 THEN 1 ELSE 0)
        /\ Count("DeregisterBufferCollection")
              = (IF Count("RegisterBufferCollection") > 0 THEN 1 ELSE 0)

\* C9 as stated: when the intersection of the memory type bits is empty no
\* memory is allocated or bound and the surface is invalid; when it is not
\* empty, the index of allocated memory is the lowest set bit of the
\* intersection.
C9_MemoryType ==
    (life \in {"alive", "aborted"} /\ h.bits >= 0) =>
        /\ h.bits = 0 =>
              /\ ~this.vk_memory_.allocated
              /\ ~this.vk_memory_.bound
              /\ this.vk_memory_.memoryTypeIndex = -1
              /\ ~IsValid(this)
        /\ (h.bits > 0 /\ this.vk_memory_.allocated) =>
              /\ BitSet(h.bits, this.vk_memory_.memoryTypeIndex)
              /\ \A i \in 0 .. (this.vk_memory_.memoryTypeIndex - 1) : ~BitSet(h.bits, i)

\* the calls the session received are the frame fences in pairs, an acquire
\* fence directly followed by a release fence
FencesPaired ==
    \A i \in 1 .. Len(session) :
       /\ session[i].cmd = "AcquireFence" =>
             i < Len(session) /\ session[i + 1].cmd = "ReleaseFence"
       /\ session[i].cmd = "ReleaseFence" =>
             i > 1 /\ session[i - 1].cmd = "AcquireFence"

\* C10: a flush in which a duplication fails returns false and changes
\* nothing; a flush in which both succeed returns true, appends one acquire
\* fence then one release fence to the session and sets the age to 0; either
\* way validity, the pending callback and the size history are as before.
C10_FlushAllOrNothing ==
    /\ FencesPaired
    /\ life = "alive" =>
         \A dup \in SignalOutcomes :
            LET r == FlushSessionAcquireAndReleaseEvents(world, dup)
                both == /\ this.acquire_event_.handle /\ dup # "acquire"
                        /\ this.release_event_.handle /\ dup # "release"
            IN /\ r.result = both
               /\ ~both => r.world = world
               /\ both =>
                    /\ r.world.session =
                          session \o << Call("AcquireFence", 0, MakeEmpty, 0),
                                        Call("ReleaseFence", 0, MakeEmpty, 0) >>
                    /\ r.world.this = [this EXCEPT !.age_ = 0]
                    /\ r.world.ran = ran

\* a successful flush of a surface that had aged, with a callback pending
C10_Witness ==
    /\ life = "alive" /\ this.valid_
    /\ Count("ReleaseFence") = 2
    /\ this.age_ = 0 /\ h.calls = 0
    /\ this.size_history_index_ # 0
    /\ this.pending_on_writes_committed_ # Null

\* C11: once the surface is destroyed its wait is neither armed nor bound to
\* a handle, and from then on no Reset runs and no callback is invoked,
\* whether the release event was signalled before the destruction or is
\* signalled after it, and whether or not the setup had completed.
C11_NoCallbackAfterDestruction ==
    /\ [](life = "destroyed" => ~this.wait_.pending /\ ~this.wait_.object)
    /\ [][life = "destroyed" =>
            /\ life' = "destroyed"
            /\ ran' = ran
            /\ h'.resets = h.resets
            /\ session' = session]_vars

\* a surface destroyed with a frame at the compositor and a callback
\* pending, whose release event is signalled afterwards
C11_Witness ==
    /\ life = "destroyed" /\ ~SetupFailed
    /\ this.release_event_.signaled
    /\ Count("ReleaseFence") >= 1 /\ owed = 0
    /\ h.signals > Len(ran)

\* position of the statement name in a trace, 0 when it was not executed
Pos(tr, name) ==
    IF \E i \in 1 .. Len(tr) : tr[i].step = name
    THEN CHOOSE i \in 1 .. Len(tr) : tr[i].step = name
    ELSE 0

Executed(tr) == {tr[i].step : i \in 1 .. Len(tr)}

\* the order of section 4.3: (a) events, (b) fence wait and command buffer,
\* (c) fence reset, (d) semaphore, (e) wait, (f) callback
ResetOrder ==
    << "Reset",
       "acquire_event_.signal", "release_event_.signal", "valid_ = false",
       "WaitForFences", "command_buffer_.reset",
       "ResetFences",
       "acquire_semaphore_.Reset", "SemaphoreFromEvent",
       "wait_.Begin",
       "pending_on_writes_committed_ = nullptr", "callback" >>

\* the statements of the trace are those of order, each once, in that order
InOrder(tr, order) ==
    [i \in 1 .. Len(tr) |-> tr[i].step]
        = SelectSeq(order, LAMBDA name : name \in Executed(tr))

\* C12: whenever the handler can run Reset, whatever the outcomes of its
\* calls and whatever the callback does, Reset executes (a) the re-arming of
\* the events, (b) the fence wait and the clearing of the command buffer if
\* one is outstanding, (c) the fence reset, (d) the destruction and the
\* re-creation of the semaphore, (e) the re-arming of the wait, (f) the
\* clearing of the slot and the invocation of the callback if there is one,
\* in this order; the invocation is the last statement.
C12_ResetOrder ==
    Deliverable =>
        \A env \in ResetEnvs, does \in Behaviours :
           LET tr == ResetTrace(Delivered, env, does)
               ex == Executed(tr)
           IN /\ InOrder(tr, ResetOrder)
              /\ {"acquire_event_.signal", "ResetFences", "acquire_semaphore_.Reset",
                  "SemaphoreFromEvent", "wait_.Begin",
                  "pending_on_writes_committed_ = nullptr"} \subseteq ex
              /\ "release_event_.signal" \in ex <=> env.signal # "acquire"
              /\ "WaitForFences" \in ex <=> this.command_buffer_
              /\ "command_buffer_.reset" \in ex <=> this.command_buffer_
              /\ "callback" \in ex <=> this.pending_on_writes_committed_ # Null
              /\ "callback" \in ex => Last(tr).step = "callback"
              /\ does = "return" => Last(tr).world = Reset(Delivered, env)

\* a Reset about to run with a command buffer outstanding and a callback
\* pending, after an earlier Reset invoked a callback
C12_Witness ==
    /\ Deliverable
    /\ this.command_buffer_
    /\ this.pending_on_writes_committed_ # Null
    /\ h.resets >= 2 /\ Len(ran) >= 1

\* the constructor arguments and call outcomes with which the setup completes
CompleteInputs ==
    [size : {sz \in Sizes : ~isEmpty(sz)}, buffer_id : 0 .. MaxBufferId,
     fail : {"none"},
     imageTypeBits : {Pow2(TypeBitsWidth) - 1},
     collectionTypeBits : {Pow2(TypeBitsWidth) - 1},
     ub : {0}, fence : BOOLEAN, rid : 1 .. MaxResourceId]

\* C13 as stated: after a Reset in which the re-arming of an event fails,
\* be it the Reset at the end of the constructor or one run by the wait
\* handler, IsValid() is false and GetSize() is 0x0, and a live surface that
\* is invalid never becomes valid again.
C13_RearmFailureInvalid ==
    /\ [](life = "unborn" =>
            \A in \in CompleteInputs, env \in ResetEnvs, debug \in BOOLEAN :
               env.signal # "ok" =>
                  LET t == VulkanSurface(world, in, env, debug).world.this
                  IN ~IsValid(t) /\ GetSize(t) = Make(0, 0))
    /\ [](Deliverable =>
            \A env \in ResetEnvs :
               env.signal # "ok" =>
                  LET t == OnHandleReady(Delivered, "ZX_OK", env).this
                  IN ~IsValid(t) /\ GetSize(t) = Make(0, 0))
    /\ [][(life = "alive" /\ ~IsValid(this)) => ~IsValid(this')]_vars

\* the part of C13 about the Resets run by the wait handler, and the
\* permanence of invalidity of a constructed surface
RearmFailureInHandler ==
    /\ [](Deliverable =>
            \A env \in ResetEnvs :
               env.signal # "ok" =>
                  LET t == OnHandleReady(Delivered, "ZX_OK", env).this
                  IN ~IsValid(t) /\ GetSize(t) = Make(0, 0))
    /\ [][(life = "alive" /\ ~IsValid(this)) => ~IsValid(this')]_vars

\* the statements of a trace executed before the statement name
Preceding(tr, name) == {tr[i].step : i \in 1 .. (Pos(tr, name) - 1)}

\* C14 as stated: in a Reset entered with a command buffer outstanding, the
\* wait for the command-buffer fence is the first statement: no event is
\* re-armed, no fence reset and no semaphore destroyed or created before it.
C14_Original ==
    (Deliverable /\ this.command_buffer_) =>
        \A env \in ResetEnvs :
           LET tr == ResetTrace(Delivered, env, "return")
           IN /\ "WaitForFences" \in Executed(tr)
              /\ Preceding(tr, "WaitForFences") = {"Reset"}

\* C14 amended: in a Reset entered with a command buffer outstanding, the
\* wait for the command-buffer fence completes before the command buffer is
\* cleared, the fence reset, the semaphore destroyed and re-created, the
\* wait re-armed and the callback invoked; only the re-arming of the two
\* events (with the loss of validity when it fails) comes before it.
C14_FenceWaitFirst ==
    (Deliverable /\ this.command_buffer_) =>
        \A env \in ResetEnvs :
           LET tr == ResetTrace(Delivered, env, "return")
               wait == Pos(tr, "WaitForFences")
           IN /\ wait # 0
              /\ Preceding(tr, "WaitForFences")
                    \subseteq {"Reset", "acquire_event_.signal",
                               "release_event_.signal", "valid_ = false"}
              /\ "acquire_event_.signal" \in Preceding(tr, "WaitForFences")
              /\ \A name \in {"command_buffer_.reset", "ResetFences",
                              "acquire_semaphore_.Reset", "SemaphoreFromEvent",
                              "wait_.Begin", "pending_on_writes_committed_ = nullptr"} :
                    Pos(tr, name) > wait
              /\ \A i \in 1 .. wait : tr[i].world.this.command_buffer_
              /\ \A i \in 1 .. wait :
                    /\ tr[i].world.this.acquire_semaphore_ = this.acquire_semaphore_
                    /\ tr[i].world.vk = vk
              /\ ~Last(tr).world.this.command_buffer_

\* a Reset about to run on a valid surface with a command buffer
\* outstanding and no callback pending, after a frame went to the compositor
C14_Witness ==
    /\ Deliverable /\ this.valid_
    /\ this.command_buffer_
    /\ this.pending_on_writes_committed_ = Null
    /\ Count("ReleaseFence") >= 1 /\ h.resets >= 2

\* C15: when Reset invokes the pending callback the slot is already empty;
\* a callback that calls SignalWritesFinished on the same surface, still
\* valid, passes the assertion and leaves its new callback pending; Reset
\* returns without invoking the new callback, and the next Reset invokes it.
\* Over a whole run a callback registered by a callback runs after it, once.
C15_ClearedBeforeInvoked ==
    /\ (Deliverable /\ this.pending_on_writes_committed_ # Null) =>
          \A env \in ResetEnvs, does \in Behaviours :
             LET cb == this.pending_on_writes_committed_
                 tr == ResetTrace(Delivered, env, does)
                 clear == Pos(tr, "pending_on_writes_committed_ = nullptr")
                 at == tr[clear].world
                 end == Last(tr)
             IN /\ clear # 0 /\ Pos(tr, "callback") = clear + 1
                /\ at.this.pending_on_writes_committed_ = Null
                /\ at.ran = ran
                /\ ~end.aborted
                /\ (does = "SignalWritesFinished" /\ cb > 0 /\ at.this.valid_) =>
                      /\ ~SignalWritesFinished(at, Child(cb)).aborted
                      /\ end.world.this.pending_on_writes_committed_ = Child(cb)
                      /\ end.world.ran = Append(ran, cb)
                      /\ end.world.this = [at.this EXCEPT
                                             !.pending_on_writes_committed_ = Child(cb)]
                      /\ \A next \in ResetEnvs :
                            Reset(end.world, next).ran = ran \o << cb, Child(cb) >>
    /\ \A i, j \in 1 .. Len(ran) : i # j => ran[i] # ran[j]
    /\ \A i \in 1 .. Len(ran) :
          /\ ran[i] # this.pending_on_writes_committed_
          /\ ran[i] < 0 => \E j \in 1 .. (i - 1) : ran[j] = -ran[i]

\* a callback registered a second one while Reset invoked it, on a surface
\* that stayed valid, and a later Reset invoked the second one
C15_Witness ==
    /\ life = "alive" /\ this.valid_
    /\ Len(ran) = 2 /\ ran[1] > 0 /\ ran[2] = Child(ran[1])
    /\ this.pending_on_writes_committed_ = Null

\* C16: on a live surface the history index is within the history; a call
\* of AdvanceAndGetAge writes GetSize() into the slot at the index, leaves
\* the other slots and moves the index to the next slot, wrapping; the
\* slots before the index hold the sizes the most recent calls observed
\* (h.sizes), newest first, and on a surface whose constructor ran to its
\* end the slots never written are empty.
C16_SizeHistory ==
    life = "alive" =>
        LET len == kSizeHistorySize
            index == this.size_history_index_
            r == AdvanceAndGetAge(world).world.this
            slot(k) == (index + len - k) % len
        IN /\ index \in 0 .. (len - 1)
           /\ DOMAIN this.size_history_ = 0 .. (len - 1)
           /\ r.size_history_ = [this.size_history_ EXCEPT ![index] = GetSize(this)]
           /\ r.size_history_index_ = (index + 1) % len
           /\ GetSize(this) = (IF IsValid(this) THEN h.size ELSE Make(0, 0))
           /\ Len(h.sizes) <= len
           /\ \A k \in 1 .. Len(h.sizes) :
                 this.size_history_[slot(k)] = h.sizes[Len(h.sizes) + 1 - k]
           /\ ~SetupIncomplete =>
                 \A k \in (Len(h.sizes) + 1) .. len :
                    this.size_history_[slot(k)] = MakeEmpty

\* more calls than the history has slots, the last one on a surface that a
\* failed Reset had made invalid
C16_Witness ==
    /\ life = "alive" /\ ~SetupIncomplete
    /\ Len(h.sizes) = kSizeHistorySize
    /\ this.size_history_index_ = 1
    /\ h.sizes[kSizeHistorySize] = Make(0, 0)
    /\ h.sizes[kSizeHistorySize - 1] = h.size

\* the semaphores the driver created so far
Created == 1 .. (vk.next - 1)

\* C17 as stated: every Reset destroys the acquire semaphore held before it,
\* and a surface that is valid after a Reset holds a semaphore that is not
\* null and is none of those created before that Reset; so a valid surface
\* that went through a Reset holds a semaphore, the only one alive.
C17_FreshSemaphore ==
    /\ (life = "alive" /\ IsValid(this) /\ h.resets >= 1) =>
          /\ this.acquire_semaphore_ # Null
          /\ vk.live = {this.acquire_semaphore_}
    /\ Deliverable =>
          \A env \in ResetEnvs :
             LET r == OnHandleReady(Delivered, "ZX_OK", env) IN
             /\ this.acquire_semaphore_ \notin r.vk.live
             /\ IsValid(r.this) =>
                   /\ r.this.acquire_semaphore_ # Null
                   /\ r.this.acquire_semaphore_ \notin Created

\* what holds of the semaphore: the one held before a Reset is destroyed by
\* it, and the one held after it is null or was created by it
SemaphoreNotReused ==
    /\ life = "alive" =>
          vk.live = {this.acquire_semaphore_} \ {Null}
    /\ Deliverable =>
          \A env \in ResetEnvs :
             LET r == OnHandleReady(Delivered, "ZX_OK", env) IN
             /\ this.acquire_semaphore_ \notin r.vk.live
             /\ r.this.acquire_semaphore_ \notin Created
             /\ r.this.acquire_semaphore_ = Null <=> ~(r.this.acquire_event_.handle /\ env.sem)

\* callback cb is registered on a surface whose constructor ran to its end,
\* and the compositor has signalled the release event
AwaitsRelease(cb) ==
    /\ life = "alive" /\ ~SetupIncomplete
    /\ this.pending_on_writes_committed_ = cb
    /\ this.release_event_.signaled
    /\ h.resets < MaxResets

Invoked(cb) == \E i \in 1 .. Len(ran) : ran[i] = cb

\* C18 as stated: on a constructed surface that is not destroyed, a
\* registered callback whose release event the compositor has signalled is
\* eventually invoked when the loop delivers fairly, and both events are
\* unsignalled in the state in which Reset invokes it.
C18_CallbackEventuallyInvoked ==
    /\ \A cb \in 1 .. MaxSignals :
          AwaitsRelease(cb) ~> (Invoked(cb) \/ life # "alive")
    /\ [](Deliverable /\ this.pending_on_writes_committed_ # Null =>
            \A env \in ResetEnvs :
               LET tr == ResetTrace(Delivered, env, "return")
                   at == tr[Pos(tr, "callback") - 1].world.this
               IN ~at.acquire_event_.signaled /\ ~at.release_event_.signaled)

\* what holds of the delivery: while the wait is armed the callback is
\* eventually invoked
InvokedWhileArmed ==
    \A cb \in 1 .. MaxSignals :
       (AwaitsRelease(cb) /\ this.wait_.pending) ~> (Invoked(cb) \/ life # "alive")

\* the first conjunct of C18 alone
InvokedEventually ==
    \A cb \in 1 .. MaxSignals :
       AwaitsRelease(cb) ~> (Invoked(cb) \/ life # "alive")

\* C19: on a live invalid surface SignalWritesFinished(cb) does not end the
\* process, invokes cb once and changes nothing else: the slot, the other
\* members and the session are as before; a second call right after it
\* invokes its own callback the same way.  No callback is pending on an
\* invalid surface, and every callback passed so far was invoked once.
C19_InvalidRunsAtOnce ==
    (life = "alive" /\ ~IsValid(this)) =>
        /\ \A cb \in 1 .. (MaxSignals + 1) :
              LET r == SignalWritesFinished(world, cb) IN
              /\ ~r.aborted
              /\ r.world.ran = Append(ran, cb)
              /\ r.world.this = this
              /\ r.world.session = session
              /\ \A next \in 1 .. (MaxSignals + 1) :
                    LET rr == SignalWritesFinished(r.world, next) IN
                    /\ ~rr.aborted
                    /\ rr.world.ran = ran \o << cb, next >>
                    /\ rr.world.this = this
        /\ this.pending_on_writes_committed_ = Null
        /\ \A cb \in 1 .. h.signals :
              Cardinality({i \in 1 .. Len(ran) : ran[i] = cb}) = 1

\* two calls in a row on a surface that a failed Reset made invalid after
\* its constructor had run to its end
C19_Witness ==
    /\ life = "alive" /\ ~IsValid(this) /\ ~SetupIncomplete
    /\ h.swf = 2 /\ Len(ran) = 2
    /\ this.pending_on_writes_committed_ = Null

\* C20 as stated: between the operations, a live surface whose constructor
\* ran to its end has its wait bound to the release event and armed, after
\* the constructor and after every delivery to the handler, whatever the
\* status delivered.
C20_WaitArmed ==
    (life = "alive" /\ ~SetupIncomplete) =>
        this.wait_.object /\ this.wait_.pending

\* what holds of the wait: it stays bound to the release event, and the
\* handler entered with ZX_OK leaves it armed exactly when Begin succeeds
ArmedWhenBeginSucceeds ==
    /\ (life = "alive" /\ ~SetupIncomplete) => this.wait_.object
    /\ Deliverable =>
          \A env \in ResetEnvs :
             OnHandleReady(Delivered, "ZX_OK", env).this.wait_.pending = env.begin
    /\ (life = "alive" /\ this.wait_.pending) =>
          ~OnHandleReady(Delivered, "ZX_ERR_CANCELED", QuietEnv).this.wait_.pending

=============================================================================
